---- MODULE Spec2Model ----
(***************************************************************************)
(* Model of the regime-driven signal generators and position ledgers of    *)
(* TradingVolatility (src/trading_volatility.py).                          *)
(*                                                                         *)
(* Numbers.  Holdings are counted in hundredths of a unit and cash in      *)
(* hundredths of a price unit, both as integer multiples of 1/Scale, so    *)
(* that the halves of Hedge-2x2 and the quarters of Partial-Rotate are     *)
(* exact.  Prices are positive integers.  Arithmetic is exact: the binary  *)
(* rounding of Python floats is not modelled.                              *)
(*                                                                         *)
(* Names.  Tickers, column names and signal names are sequences of         *)
(* one-character strings, so that concatenation, the regular expression    *)
(* of __extract_asset_name and the fixed-length slices are computed.       *)
(*                                                                         *)
(* Steps.  One action processes one date: the date's row is read, the      *)
(* basis is computed, the generator's loop body and the ledger's loop body *)
(* run for that date and the date's row of the result frame is valued.     *)
(* The source runs the three loops one after the other over all dates;     *)
(* iteration t of each loop reads only row t and the state left by         *)
(* iteration t-1 of the same loop.                                         *)
(***************************************************************************)
EXTENDS Integers, Sequences, FiniteSets, TLC

(***************************************************************************)
(* Bounds and input sets                                                   *)
(***************************************************************************)
MaxDates == 3

RECURSIVE Pow(_, _)
Pow(b, e) == IF e = 0 THEN 1 ELSE b * Pow(b, e - 1)

Scale == Pow(4, MaxDates)

Capitals == {10, 25}

OpenPrices == {1, 3}

FutSpot == {<<2, 3>>, <<3, 2>>, <<2, 2>>}

Policies == {"lsv", "hlsv", "lslv"}

(***************************************************************************)
(* Names                                                                   *)
(***************************************************************************)
long_vix_asset == <<"v", "i", "x", "y">>

short_vix_asset == <<"s", "v", "x", "y">>

hedge_asset == <<"s", "p", "y">>

future_index_ticker == <<"v", "x">>

spot_index_ticker == <<"v", "i", "x">>

None == <<"None">>

NaN == <<>>

Str_open == <<"_", "o", "p", "e", "n">>

Str_close == <<"_", "c", "l", "o", "s", "e">>

Str_sell == <<"s", "e", "l", "l">>

Str_buy == <<"b", "u", "y">>

Str_signal == <<"_", "s", "i", "g", "n", "a", "l">>

Str_long_ == <<"l", "o", "n", "g", "_">>

Str_short_ == <<"s", "h", "o", "r", "t", "_">>

Str_short == <<"s", "h", "o", "r", "t">>

Str_25 == <<"_", "2", "5">>

Str_75 == <<"_", "7", "5">>

Str_100 == <<"_", "1", "0", "0">>

\* f"{asset}_{signal_type}_signal"
SignalName(asset, signal_type) == asset \o <<"_">> \o signal_type \o Str_signal

\* The signal names of the three generators
long_sell == SignalName(long_vix_asset, Str_sell)

short_sell == SignalName(short_vix_asset, Str_sell)

long_buy == SignalName(long_vix_asset, Str_buy)

short_buy == SignalName(short_vix_asset, Str_buy)

lh_sell == SignalName(Str_long_ \o hedge_asset, Str_sell)

sh_sell == SignalName(Str_short_ \o hedge_asset, Str_sell)

lh_buy == SignalName(Str_long_ \o hedge_asset, Str_buy)

sh_buy == SignalName(Str_short_ \o hedge_asset, Str_buy)

long_hedge_asset == hedge_asset

vix_25_sell == SignalName(long_vix_asset \o Str_25, Str_sell)

hedge_75_sell == SignalName(long_hedge_asset \o Str_75, Str_sell)

vix_25_buy == SignalName(long_vix_asset \o Str_25, Str_buy)

hedge_100_buy == SignalName(long_hedge_asset \o Str_100, Str_buy)

\* sub in s
Contains(sub, s) ==
    \E i \in 0..(Len(s) - Len(sub)) : SubSeq(s, i + 1, i + Len(sub)) = sub

EndsWith(s, suffix) ==
    /\ Len(s) >= Len(suffix)
    /\ SubSeq(s, Len(s) - Len(suffix) + 1, Len(s)) = suffix

\* s[:n]
Head_n(s, n) == SubSeq(s, 1, IF n < Len(s) THEN n ELSE Len(s))

\* s[-n:]
Tail_n(s, n) == SubSeq(s, IF Len(s) > n THEN Len(s) - n + 1 ELSE 1, Len(s))

\* The search that never matches
extract_asset_name_no_match(signal_string) == None

\* re.search(r"^(.*?)(_sell_signal|_buy_signal)$", signal_string)
extract_asset_name(signal_string) ==
    IF EndsWith(signal_string, <<"_">> \o Str_sell \o Str_signal)
    THEN SubSeq(signal_string, 1, Len(signal_string) - Len(<<"_">> \o Str_sell \o Str_signal))
    ELSE IF EndsWith(signal_string, <<"_">> \o Str_buy \o Str_signal)
    THEN SubSeq(signal_string, 1, Len(signal_string) - Len(<<"_">> \o Str_buy \o Str_signal))
    ELSE None

(***************************************************************************)
(* The price table: one row per date, a function from column name to price *)
(***************************************************************************)
Col(ticker, suffix) == ticker \o suffix

Tradables == <<long_vix_asset, short_vix_asset, hedge_asset>>

\* A row of self.data as get_data joins it: open and close of every tradable,
\* open of the two index columns.
MakeRow(fs, o, c) ==
    [k \in {Col(future_index_ticker, Str_open), Col(spot_index_ticker, Str_open)}
           \cup {Col(Tradables[i], Str_open) : i \in 1..3}
           \cup {Col(Tradables[i], Str_close) : i \in 1..3} |->
        IF k = Col(future_index_ticker, Str_open) THEN fs[1]
        ELSE IF k = Col(spot_index_ticker, Str_open) THEN fs[2]
        ELSE IF \E i \in 1..3 : k = Col(Tradables[i], Str_open)
        THEN o[CHOOSE i \in 1..3 : k = Col(Tradables[i], Str_open)]
        ELSE c[CHOOSE i \in 1..3 : k = Col(Tradables[i], Str_close)]]

CloseVectors == {<<2, 5, 7>>, <<5, 2, 3>>}

Rows == {MakeRow(fs, o, c) : fs \in FutSpot,
                             o \in [1..3 -> OpenPrices],
                             c \in CloseVectors}

\* The left join of get_data leaves NaN where a source has no value for the
\* date.  A row with such cells carries their column names under NaNCol.
NaNCol == <<"isna">>

\* np.isnan(self.data.loc[date][column])
IsNaN(r, column) == NaNCol \in DOMAIN r /\ column \in r[NaNCol]

\* The row with the cells of `columns` undefined
MaskedRow(r, columns) ==
    [k \in DOMAIN r \cup {NaNCol} |-> IF k = NaNCol THEN columns ELSE r[k]]

(***************************************************************************)
(* Regime classifier                                                       *)
(***************************************************************************)
\* (x[0] / x[1]) - 1 as the exact fraction num/den, den > 0; NaN, written 0/0,
\* when the future or the spot is NaN
daily_basis(r, vol_future_ticker, vol_spot_ticker) ==
    IF IsNaN(r, vol_future_ticker) \/ IsNaN(r, vol_spot_ticker)
    THEN [num |-> 0, den |-> 0]
    ELSE [num |-> r[vol_future_ticker] - r[vol_spot_ticker], den |-> r[vol_spot_ticker]]

\* The comparison that counts a zero basis as negative
BasisNotPositive(b) == b.num <= 0

\* df["basis"][index] < 0, False for a NaN basis
BasisNegative(b) == b.num < 0

(***************************************************************************)
(* Arithmetic of the ledgers                                               *)
(***************************************************************************)
\* The lot rounded up instead of down
LotRoundUp(cash, price) == ((cash + price * Scale - 1) \div (price * Scale)) * Scale

\* math.floor(cash / price * 100) / 100
Lot(cash, price) == (cash \div (price * Scale)) * Scale

\* x * 0.5
Half(x) == x \div 2

\* x * 0.25
Quarter(x) == x \div 4

(***************************************************************************)
(* Signal lists.  Within one iteration a signals dictionary maps each name *)
(* to the values appended for the current index; the row of the signals    *)
(* frame is the one value each list then holds for that index.             *)
(***************************************************************************)
NoAppends(keys) == [i \in 1..Len(keys) |-> <<>>]

Pos(keys, key) == CHOOSE i \in 1..Len(keys) : keys[i] = key

\* signals[key].append(v)
AppendSignal(keys, sig, key, v) == [sig EXCEPT ![Pos(keys, key)] = Append(@, v)]

\* for key, value in signals.items(): if len(value) < index + 1: append(np.nan)
FillNaN(sig) == [i \in DOMAIN sig |-> IF Len(sig[i]) < 1 THEN Append(sig[i], NaN) ELSE sig[i]]

\* row `index` of pd.DataFrame(signals): {name: value}
SignalsRow(keys, sig) == [k \in {keys[i] : i \in 1..Len(keys)} |-> sig[Pos(keys, k)][1]]

\* {key: value for key, value in row.items() if not np.isnan(value)}, in column order
NotNaN(keys, sigrow) == SelectSeq(keys, LAMBDA k : sigrow[k] # NaN)

(***************************************************************************)
(* Rotate-2: __lsv_signals                                                 *)
(***************************************************************************)
\* The columns with the buy signals ahead of the sell signals
lsv_asset_signals_buy_first == <<long_buy, short_buy, long_sell, short_sell>>


lsv_asset_signals == <<long_sell, short_sell, long_buy, short_buy>>

lsv_positions == [long_vix_asset |-> FALSE, short_vix_asset |-> FALSE]

\* The flip that forgets to clear the short-vol flag
lsv_close_short_open_long_keep(p) == [p EXCEPT !.long_vix_asset = TRUE]

\* positions["short_vix_asset"] = False; positions["long_vix_asset"] = True
lsv_close_short_open_long(p) ==
    [p EXCEPT !.short_vix_asset = FALSE, !.long_vix_asset = TRUE]

\* positions["long_vix_asset"] = False; positions["short_vix_asset"] = True
lsv_close_long_open_short(p) ==
    [p EXCEPT !.long_vix_asset = FALSE, !.short_vix_asset = TRUE]

\* One iteration of the loop over range(len(df)): the new positions and the
\* values appended to each signal list.
lsv_signals(p, b, r) ==
    LET K == lsv_asset_signals
        long_open == r[Col(long_vix_asset, Str_open)]
        short_open == r[Col(short_vix_asset, Str_open)]
        e == NoAppends(K)
    IN  IF BasisNegative(b)
        THEN IF ~p.long_vix_asset
             THEN IF ~p.short_vix_asset
                  THEN [positions |-> [p EXCEPT !.long_vix_asset = TRUE],
                        signals |-> FillNaN(AppendSignal(K, e, long_buy, <<long_open>>))]
                  ELSE [positions |-> lsv_close_short_open_long(p),
                        signals |-> FillNaN(AppendSignal(K,
                                        AppendSignal(K, e, short_sell, <<short_open>>),
                                        long_buy, <<long_open>>))]
             ELSE [positions |-> p,
                   signals |-> FillNaN(AppendSignal(K, e, long_buy, NaN))]
        ELSE IF ~p.short_vix_asset
             THEN IF ~p.long_vix_asset
                  THEN [positions |-> [p EXCEPT !.short_vix_asset = TRUE],
                        signals |-> FillNaN(AppendSignal(K, e, short_buy, <<short_open>>))]
                  ELSE [positions |-> lsv_close_long_open_short(p),
                        signals |-> FillNaN(AppendSignal(K,
                                        AppendSignal(K, e, long_sell, <<long_open>>),
                                        short_buy, <<short_open>>))]
             ELSE [positions |-> p,
                   signals |-> FillNaN(AppendSignal(K, e, short_buy, NaN))]

(***************************************************************************)
(* Rotate-2: lsv_strategy                                                  *)
(***************************************************************************)
lsv_initial(capital) ==
    [available_cash |-> capital * Scale, max_holding |-> 0,
     current_asset |-> None, sale_proceeds |-> 0]

\* Execute first day trade from dataframe
lsv_first_trade(st, sigrow) ==
    LET first_trade_dict == NotNaN(lsv_asset_signals, sigrow)
        first_trade_key == first_trade_dict[1]
        price == sigrow[first_trade_key][1]
        max_holding == Lot(st.available_cash, price)
    IN  [st EXCEPT !.max_holding = max_holding,
                   !.available_cash = @ - max_holding * price,
                   !.current_asset = extract_asset_name(first_trade_key)]

\* Body of `for signal, open_price in execude_trades.items()`
lsv_trade(st, signal, open_price) ==
    IF (short_vix_asset # <<>> \/ long_vix_asset # <<>>) /\ Contains(Str_sell, signal)
    THEN [st EXCEPT !.max_holding = 0,
                    !.available_cash = @ + (st.sale_proceeds + st.max_holding * open_price),
                    !.sale_proceeds = 0]
    ELSE LET max_holding == Lot(st.available_cash, open_price)
         IN  [st EXCEPT !.max_holding = max_holding,
                        !.available_cash = @ - max_holding * open_price,
                        !.current_asset = extract_asset_name(signal)]

RECURSIVE lsv_execute(_, _, _)
lsv_execute(trades, sigrow, st) ==
    IF trades = <<>> THEN st
    ELSE lsv_execute(Tail(trades), sigrow,
                     lsv_trade(st, Head(trades), sigrow[Head(trades)][1]))

\* The ledger when the loop over execude_trades has passed the date's sells
lsv_after_sells(st, sigrow) ==
    LET execude_trades == NotNaN(lsv_asset_signals, sigrow)
        sell_trades == SelectSeq(execude_trades, LAMBDA k : Contains(Str_sell, k))
    IN  lsv_execute(sell_trades, sigrow, st)

\* The no-trade branch that records an empty position
lsv_hold_reset(st) == [st EXCEPT !.max_holding = 0]

\* "Empty dictionary, hence no trade for the trading day": the values appended
lsv_hold(st) == st

\* One iteration of `for index in range(1, len(signals_df))`
lsv_date(st, sigrow) ==
    LET execude_trades == NotNaN(lsv_asset_signals, sigrow)
    IN  IF execude_trades # <<>> THEN lsv_execute(execude_trades, sigrow, st)
        ELSE lsv_hold(st)

\* self.data.loc[date][column]: the value, or no value when the column is absent
Lookup(r, column) == IF column \in DOMAIN r THEN <<r[column]>> ELSE <<>>

\* res["asset_value"] + res["available_cash"]
lsv_portfolio_value(asset_value, available_cash) == asset_value + available_cash

\* The sum that omits the hedge leg
portfolio_value3_no_hedge(asset_value, hedge_value, available_cash) ==
    asset_value + available_cash

\* res["asset_value"] + res["hedge_value"] + res["available_cash"]
portfolio_value3(asset_value, hedge_value, available_cash) ==
    asset_value + hedge_value + available_cash

\* The date's row of the result frame of lsv_strategy
lsv_result(st, r) ==
    LET asset_close_price == Lookup(r, Col(st.current_asset, Str_close))
    IN  IF asset_close_price = <<>>
        THEN [raised |-> "KeyError"]
        ELSE IF IsNaN(r, Col(st.current_asset, Str_close))
        THEN [raised |-> "",
              asset_history |-> st.current_asset,
              holding_quantity |-> st.max_holding,
              available_cash |-> st.available_cash,
              nan |-> {"asset_close_price", "asset_value", "portfolio_value"}]
        ELSE [raised |-> "",
              asset_history |-> st.current_asset,
              holding_quantity |-> st.max_holding,
              available_cash |-> st.available_cash,
              asset_close_price |-> asset_close_price[1],
              asset_value |-> asset_close_price[1] * st.max_holding,
              portfolio_value |-> lsv_portfolio_value(asset_close_price[1] * st.max_holding,
                                                      st.available_cash),
              nan |-> {}]

(***************************************************************************)
(* Hedge-2x2: __hlsv_signals                                               *)
(***************************************************************************)
hlsv_asset_signals ==
    <<long_sell, short_sell, lh_sell, sh_sell, long_buy, short_buy, lh_buy, sh_buy>>

hlsv_positions ==
    [long_vix_asset |-> FALSE, short_vix_asset |-> FALSE,
     long_hedge_asset |-> FALSE, short_hedge_asset |-> FALSE]

\* The flip that leaves the short hedge flag set
hlsv_close_short_open_long_keep(p) ==
    [p EXCEPT !.short_vix_asset = FALSE, !.long_vix_asset = TRUE,
              !.long_hedge_asset = TRUE]

\* positions of the short pair = False; positions of the long pair = True
hlsv_close_short_open_long(p) ==
    [p EXCEPT !.short_vix_asset = FALSE, !.short_hedge_asset = FALSE,
              !.long_vix_asset = TRUE, !.long_hedge_asset = TRUE]

\* positions of the long pair = False; positions of the short pair = True
hlsv_close_long_open_short(p) ==
    [p EXCEPT !.long_vix_asset = FALSE, !.long_hedge_asset = FALSE,
              !.short_vix_asset = TRUE, !.short_hedge_asset = TRUE]

hlsv_signals(p, b, r) ==
    LET K == hlsv_asset_signals
        long_open == r[Col(long_vix_asset, Str_open)]
        short_open == r[Col(short_vix_asset, Str_open)]
        hedge_open == r[Col(hedge_asset, Str_open)]
        e == NoAppends(K)
        A2(s, k1, v1, k2, v2) == AppendSignal(K, AppendSignal(K, s, k1, v1), k2, v2)
    IN  IF BasisNegative(b)
        THEN IF ~p.long_vix_asset /\ ~p.long_hedge_asset
             THEN IF ~p.short_vix_asset /\ ~p.short_hedge_asset
                  THEN [positions |-> [p EXCEPT !.long_vix_asset = TRUE,
                                                !.long_hedge_asset = TRUE],
                        signals |-> FillNaN(A2(e, long_buy, <<long_open>>,
                                               lh_buy, <<hedge_open>>))]
                  ELSE [positions |-> hlsv_close_short_open_long(p),
                        signals |-> FillNaN(A2(A2(e, short_sell, <<short_open>>,
                                                  sh_sell, <<hedge_open>>),
                                               long_buy, <<long_open>>,
                                               lh_buy, <<hedge_open>>))]
             ELSE [positions |-> p,
                   signals |-> FillNaN(A2(e, long_buy, NaN, lh_buy, NaN))]
        ELSE IF ~p.short_vix_asset /\ ~p.short_hedge_asset
             THEN IF ~p.long_vix_asset /\ ~p.long_hedge_asset
                  THEN [positions |-> [p EXCEPT !.short_vix_asset = TRUE,
                                                !.short_hedge_asset = TRUE],
                        signals |-> FillNaN(A2(e, short_buy, <<short_open>>,
                                               sh_buy, <<hedge_open>>))]
                  ELSE [positions |-> hlsv_close_long_open_short(p),
                        signals |-> FillNaN(A2(A2(e, long_sell, <<long_open>>,
                                                  lh_sell, <<hedge_open>>),
                                               short_buy, <<short_open>>,
                                               sh_buy, <<hedge_open>>))]
             ELSE [positions |-> p,
                   signals |-> FillNaN(A2(e, short_buy, NaN, sh_buy, NaN))]

(***************************************************************************)
(* Hedge-2x2: hlsv_strategy                                                *)
(***************************************************************************)
\* The allocation that hands the whole cash balance to each leg
AllocationWhole(available_cash) == available_cash

\* available_cash * hedge_allocation, hedge_allocation = 0.5
Allocation(available_cash) == Half(available_cash)

hlsv_initial(capital) ==
    [available_cash |-> capital * Scale, asset_holding |-> 0, hedge_holding |-> 0,
     current_asset |-> None, current_hedge |-> None, sale_proceeds |-> 0,
     asset_cash |-> Allocation(capital * Scale),
     hedge_cash |-> Allocation(capital * Scale)]

\* hedge lot of the first day: math.floor(-hedge_cash / price * 100) / 100
hlsv_first_hedge_lot(hedge_cash, price, hedge_key) == Lot(-hedge_cash, price)

hlsv_first_trade(st, sigrow) ==
    LET first_trade_dict == NotNaN(hlsv_asset_signals, sigrow)
        asset_key == first_trade_dict[1]
        asset_price == sigrow[asset_key][1]
        asset_holding == Lot(st.asset_cash, asset_price)
        asset_cash == st.asset_cash - asset_holding * asset_price
        hedge_key == first_trade_dict[2]
        hedge_price == sigrow[hedge_key][1]
        hedge_holding == hlsv_first_hedge_lot(st.hedge_cash, hedge_price, hedge_key)
        hedge_cash == st.hedge_cash - hedge_holding * hedge_price
    IN  [st EXCEPT !.asset_holding = asset_holding,
                   !.asset_cash = asset_cash,
                   !.current_asset = extract_asset_name(asset_key),
                   !.hedge_holding = hedge_holding,
                   !.hedge_cash = hedge_cash,
                   !.current_hedge = extract_asset_name(hedge_key),
                   !.available_cash = asset_cash + hedge_cash]

\* Body of `for signal, open_price in sell_trades.items()`
hlsv_sell(st, signal, open_price) ==
    IF Contains(long_vix_asset, signal) \/ Contains(short_vix_asset, signal)
    THEN [st EXCEPT !.available_cash = @ + (st.sale_proceeds + st.asset_holding * open_price),
                    !.asset_holding = 0,
                    !.sale_proceeds = 0,
                    !.current_asset = None]
    ELSE [st EXCEPT !.available_cash = @ + (st.sale_proceeds + st.hedge_holding * open_price),
                    !.hedge_holding = 0,
                    !.sale_proceeds = 0,
                    !.current_hedge = None]

\* Body of `for signal, open_price in buy_trades.items()`
hlsv_buy(st, signal, open_price) ==
    IF Contains(hedge_asset, signal)
    THEN LET hedge_holding == IF Contains(Str_short, signal)
                              THEN Lot(-st.hedge_cash, open_price)
                              ELSE Lot(st.hedge_cash, open_price)
         IN  [st EXCEPT !.hedge_holding = hedge_holding,
                        !.hedge_cash = @ - hedge_holding * open_price,
                        !.current_hedge = extract_asset_name(signal)]
    ELSE LET asset_holding == Lot(st.asset_cash, open_price)
         IN  [st EXCEPT !.asset_holding = asset_holding,
                        !.asset_cash = @ - asset_holding * open_price,
                        !.current_asset = extract_asset_name(signal)]

RECURSIVE hlsv_sells(_, _, _)
hlsv_sells(trades, sigrow, st) ==
    IF trades = <<>> THEN st
    ELSE hlsv_sells(Tail(trades), sigrow,
                    hlsv_sell(st, Head(trades), sigrow[Head(trades)][1]))

RECURSIVE hlsv_buys(_, _, _)
hlsv_buys(trades, sigrow, st) ==
    IF trades = <<>> THEN st
    ELSE hlsv_buys(Tail(trades), sigrow,
                   hlsv_buy(st, Head(trades), sigrow[Head(trades)][1]))

\* The re-allocation computed from the cash balance before the date's sells
hlsv_after_sells_stale(st, sigrow) ==
    LET execude_trades == NotNaN(hlsv_asset_signals, sigrow)
        sell_trades == SelectSeq(execude_trades, LAMBDA k : Contains(Str_sell, k))
        sold == hlsv_sells(sell_trades, sigrow, st)
    IN  [sold EXCEPT !.asset_cash = Allocation(st.available_cash),
                     !.hedge_cash = Allocation(st.available_cash)]

\* The ledger after the date's sells and the re-allocation of cash
hlsv_after_sells(st, sigrow) ==
    LET execude_trades == NotNaN(hlsv_asset_signals, sigrow)
        sell_trades == SelectSeq(execude_trades, LAMBDA k : Contains(Str_sell, k))
        sold == hlsv_sells(sell_trades, sigrow, st)
    IN  [sold EXCEPT !.asset_cash = Allocation(sold.available_cash),
                     !.hedge_cash = Allocation(sold.available_cash)]

\* "Empty dictionary, hence no trade for the trading day": the values appended
hlsv_hold(st) == st

\* One iteration of `for index in range(1, len(signals_df))`
hlsv_date(st, sigrow) ==
    LET execude_trades == NotNaN(hlsv_asset_signals, sigrow)
        buy_trades == SelectSeq(execude_trades, LAMBDA k : Contains(Str_buy, k))
        bought == hlsv_buys(buy_trades, sigrow, hlsv_after_sells(st, sigrow))
    IN  IF execude_trades # <<>>
        THEN [bought EXCEPT !.available_cash = bought.asset_cash + bought.hedge_cash]
        ELSE hlsv_hold(st)

\* The columns of the result row that are NaN: a value is NaN when its close
\* price is, the sum when one of its terms is
NaNValues(asset_nan, hedge_nan) ==
    (IF asset_nan THEN {"asset_value"} ELSE {})
        \cup (IF hedge_nan THEN {"hedge_value"} ELSE {})
        \cup (IF asset_nan \/ hedge_nan THEN {"portfolio_value"} ELSE {})

\* The date's row of the result frame of hlsv_strategy
hlsv_result(st, r) ==
    LET asset_close == Lookup(r, Col(st.current_asset, Str_close))
        hedge_close == IF st.current_hedge = None THEN <<>>
                       ELSE Lookup(r, Col(Tail_n(st.current_hedge, 3), Str_close))
    IN  IF asset_close = <<>> THEN [raised |-> "KeyError"]
        ELSE IF st.current_hedge = None THEN [raised |-> "TypeError"]
        ELSE IF hedge_close = <<>> THEN [raised |-> "KeyError"]
        ELSE IF IsNaN(r, Col(st.current_asset, Str_close))
                \/ IsNaN(r, Col(Tail_n(st.current_hedge, 3), Str_close))
        THEN [raised |-> "",
              asset_history |-> st.current_asset,
              asset_quantity |-> st.asset_holding,
              hedge_history |-> st.current_hedge,
              hedge_quantity |-> st.hedge_holding,
              available_cash |-> st.available_cash,
              nan |-> NaNValues(IsNaN(r, Col(st.current_asset, Str_close)),
                                IsNaN(r, Col(Tail_n(st.current_hedge, 3), Str_close)))]
        ELSE [raised |-> "",
              asset_history |-> st.current_asset,
              asset_quantity |-> st.asset_holding,
              hedge_history |-> st.current_hedge,
              hedge_quantity |-> st.hedge_holding,
              available_cash |-> st.available_cash,
              asset_value |-> asset_close[1] * st.asset_holding,
              hedge_value |-> hedge_close[1] * st.hedge_holding,
              portfolio_value |-> portfolio_value3(asset_close[1] * st.asset_holding,
                                                   hedge_close[1] * st.hedge_holding,
                                                   st.available_cash),
              nan |-> {}]

(***************************************************************************)
(* Partial-Rotate: __lslv_signals                                          *)
(***************************************************************************)
lslv_asset_signals == <<vix_25_sell, hedge_75_sell, vix_25_buy, hedge_100_buy>>

lslv_positions ==
    [long_vix_asset_25 |-> FALSE, long_hedge_asset_75 |-> FALSE,
     long_hedge_asset_100 |-> FALSE]

\* The opening of the volatility leg that leaves the 100 flag as it was
lslv_open_vol_keep(p) ==
    [p EXCEPT !.long_hedge_asset_75 = TRUE, !.long_vix_asset_25 = TRUE]

\* positions: 75 = True, 25 = True, 100 = False
lslv_open_vol(p) ==
    [p EXCEPT !.long_hedge_asset_75 = TRUE, !.long_vix_asset_25 = TRUE,
              !.long_hedge_asset_100 = FALSE]

\* The return to the full hedge that leaves the 25 and 75 flags as they were
lslv_open_hedge_keep(p) == [p EXCEPT !.long_hedge_asset_100 = TRUE]

\* positions: 25 = False, 75 = False, 100 = True
lslv_open_hedge(p) ==
    [p EXCEPT !.long_vix_asset_25 = FALSE, !.long_hedge_asset_75 = FALSE,
              !.long_hedge_asset_100 = TRUE]

lslv_signals(p, b, r) ==
    LET K == lslv_asset_signals
        long_vix_asset_open == r[Col(long_vix_asset, Str_open)]
        long_hedge_asset_open == r[Col(long_hedge_asset, Str_open)]
        e == NoAppends(K)
        A2(s, k1, v1, k2, v2) == AppendSignal(K, AppendSignal(K, s, k1, v1), k2, v2)
    IN  IF BasisNegative(b)
        THEN IF ~p.long_vix_asset_25 /\ ~p.long_hedge_asset_75
             THEN [positions |-> lslv_open_vol(p),
                   signals |-> FillNaN(A2(e, hedge_75_sell, <<long_hedge_asset_open>>,
                                          vix_25_buy, <<long_vix_asset_open>>))]
             ELSE [positions |-> p,
                   signals |-> FillNaN(A2(e, vix_25_buy, NaN, hedge_75_sell, NaN))]
        ELSE IF ~p.long_hedge_asset_100
             THEN [positions |-> lslv_open_hedge(p),
                   signals |-> FillNaN(A2(e, vix_25_sell, <<long_vix_asset_open>>,
                                          hedge_100_buy, <<long_hedge_asset_open>>))]
             ELSE [positions |-> p,
                   signals |-> FillNaN(AppendSignal(K, e, hedge_100_buy, NaN))]

(***************************************************************************)
(* Partial-Rotate: lslv_strategy                                           *)
(***************************************************************************)
lslv_initial(capital) ==
    [available_cash |-> capital * Scale, asset_holding |-> 0, hedge_holding |-> 0,
     sale_proceeds |-> 0, current_asset |-> None, current_hedge |-> None]

\* Execute first day trade from dataframe
lslv_first_trade(st, sigrow) ==
    LET first_trade_dict ==
            SelectSeq(NotNaN(lslv_asset_signals, sigrow),
                      LAMBDA k : k # vix_25_sell)
        first_trade_key == first_trade_dict[1]
        price == sigrow[first_trade_key][1]
        hedge_holding == Lot(st.available_cash, price)
    IN  [st EXCEPT !.hedge_holding = hedge_holding,
                   !.available_cash = @ - hedge_holding * price,
                   !.current_hedge = extract_asset_name(first_trade_key)]

\* The part of the hedge holding a Sell of the 75 leg liquidates: hedge_holding * 0.25
lslv_hedge_sold(hedge_holding) == Quarter(hedge_holding)

\* The Buy that replaces the hedge holding by the new lot
lslv_hedge_replaced(hedge_holding, tmp) == tmp

\* hedge_holding += tmp
lslv_hedge_bought(hedge_holding, tmp) == hedge_holding + tmp

\* Body of `for signal, open_price in execude_trades.items()`
lslv_trade(st, signal, open_price) ==
    IF Contains(Str_sell, signal)
    THEN IF Contains(long_hedge_asset \o Str_75, signal)
         THEN [st EXCEPT !.available_cash =
                             @ + (st.sale_proceeds
                                  + lslv_hedge_sold(st.hedge_holding) * open_price),
                         !.hedge_holding = @ - lslv_hedge_sold(st.hedge_holding),
                         !.sale_proceeds = 0,
                         !.current_hedge = extract_asset_name(signal)]
         ELSE [st EXCEPT !.available_cash = @ + st.asset_holding * open_price,
                         !.asset_holding = 0,
                         !.sale_proceeds = 0,
                         !.current_asset = None]
    ELSE IF Contains(long_vix_asset, signal)
         THEN LET asset_holding == Lot(st.available_cash, open_price)
              IN  [st EXCEPT !.asset_holding = asset_holding,
                             !.available_cash = @ - asset_holding * open_price,
                             !.current_asset = extract_asset_name(signal)]
         ELSE LET tmp == Lot(st.available_cash, open_price)
              IN  [st EXCEPT !.available_cash = @ - tmp * open_price,
                             !.hedge_holding = lslv_hedge_bought(@, tmp),
                             !.current_hedge = extract_asset_name(signal)]

RECURSIVE lslv_execute(_, _, _)
lslv_execute(trades, sigrow, st) ==
    IF trades = <<>> THEN st
    ELSE lslv_execute(Tail(trades), sigrow,
                      lslv_trade(st, Head(trades), sigrow[Head(trades)][1]))

\* The ledger when the loop over execude_trades has passed the sale of the asset
lslv_after_asset_sell(st, sigrow) ==
    LET execude_trades == NotNaN(lslv_asset_signals, sigrow)
        sell_trades == SelectSeq(execude_trades, LAMBDA k : k = vix_25_sell)
    IN  lslv_execute(sell_trades, sigrow, st)

\* "Empty dictionary, hence no trade for the trading day": the values appended
lslv_hold(st) == st

\* One iteration of `for index in range(1, len(signals_df))`
lslv_date(st, sigrow) ==
    LET execude_trades == NotNaN(lslv_asset_signals, sigrow)
    IN  IF execude_trades # <<>> THEN lslv_execute(execude_trades, sigrow, st)
        ELSE lslv_hold(st)

\* The date's row of the result frame of lslv_strategy
lslv_result(st, r) ==
    LET asset_close == IF st.current_asset = None THEN <<>>
                       ELSE Lookup(r, Col(Head_n(st.current_asset, 4), Str_close))
        hedge_close == IF st.current_hedge = None THEN <<>>
                       ELSE Lookup(r, Col(Head_n(st.current_hedge, 3), Str_close))
        asset_value == IF st.current_asset = None THEN 0
                       ELSE asset_close[1] * st.asset_holding
        asset_nan == st.current_asset # None
                     /\ IsNaN(r, Col(Head_n(st.current_asset, 4), Str_close))
    IN  IF st.current_asset # None /\ asset_close = <<>> THEN [raised |-> "KeyError"]
        ELSE IF st.current_hedge = None THEN [raised |-> "TypeError"]
        ELSE IF hedge_close = <<>> THEN [raised |-> "KeyError"]
        ELSE IF asset_nan \/ IsNaN(r, Col(Head_n(st.current_hedge, 3), Str_close))
        THEN [raised |-> "",
              asset_history |-> st.current_asset,
              asset_quantity |-> st.asset_holding,
              hedge_history |-> st.current_hedge,
              hedge_quantity |-> st.hedge_holding,
              available_cash |-> st.available_cash,
              nan |-> NaNValues(asset_nan,
                                IsNaN(r, Col(Head_n(st.current_hedge, 3), Str_close)))]
        ELSE [raised |-> "",
              asset_history |-> st.current_asset,
              asset_quantity |-> st.asset_holding,
              hedge_history |-> st.current_hedge,
              hedge_quantity |-> st.hedge_holding,
              available_cash |-> st.available_cash,
              asset_value |-> asset_value,
              hedge_value |-> hedge_close[1] * st.hedge_holding,
              portfolio_value |-> portfolio_value3(asset_value,
                                                   hedge_close[1] * st.hedge_holding,
                                                   st.available_cash),
              nan |-> {}]

(***************************************************************************)
(* State                                                                   *)
(***************************************************************************)
VARIABLES
    policy,          \* which strategy method runs: "lsv", "hlsv" or "lslv"
    intial_capital,  \* the argument intial_capital
    n,               \* dates processed so far = length of the history lists
    row,             \* self.data.iloc[n-1]: the row of the last date processed
    basis,           \* self.data["basis"] of that row
    positions,       \* the generator's positions dictionary
    signals,         \* signals_df.iloc[n-1]
    ledger,          \* the local variables of the strategy method
    snapshot,        \* row n-1 of the result frame
    data,            \* the whole table self.data, kept when runs are repeated
    run,             \* 1 in the first call of the method, 2 in a repeated call
    series,          \* the result frame of the current call, kept when runs are repeated
    series1,         \* the result frame the first call returned
    data1,           \* the table the first call ran on, kept when the table is changed
    tmp,             \* the argument of maximum_drawdown: portfolio_value.copy()
    returned         \* what maximum_drawdown returned: <<value>>, or <<>> before the call

vars == <<policy, intial_capital, n, row, basis, positions, signals, ledger,
          snapshot, data, run, series, series1, data1, tmp, returned>>

metricVars == <<data1, tmp, returned>>

repeatVars == <<data, run, series, series1, data1, tmp, returned>>

Keys(pol) ==
    IF pol = "lsv" THEN lsv_asset_signals
    ELSE IF pol = "hlsv" THEN hlsv_asset_signals
    ELSE lslv_asset_signals

\* positions = {...: False} at the top of the generator
InitialPositions(pol) ==
    IF pol = "lsv" THEN lsv_positions
    ELSE IF pol = "hlsv" THEN hlsv_positions
    ELSE lslv_positions

\* "Initial values" at the top of the strategy method
InitialLedger(pol, capital) ==
    IF pol = "lsv" THEN lsv_initial(capital)
    ELSE IF pol = "hlsv" THEN hlsv_initial(capital)
    ELSE lslv_initial(capital)

Generate(pol, p, b, r) ==
    IF pol = "lsv" THEN lsv_signals(p, b, r)
    ELSE IF pol = "hlsv" THEN hlsv_signals(p, b, r)
    ELSE lslv_signals(p, b, r)

Result(pol, st, r) ==
    IF pol = "lsv" THEN lsv_result(st, r)
    ELSE IF pol = "hlsv" THEN hlsv_result(st, r)
    ELSE lslv_result(st, r)

Init ==
    /\ policy \in Policies
    /\ intial_capital \in Capitals
    /\ n = 0
    /\ row = <<>>
    /\ basis = NaN
    /\ positions = InitialPositions(policy)
    /\ signals = <<>>
    /\ ledger = InitialLedger(policy, intial_capital)
    /\ snapshot = [raised |-> ""]
    /\ data = <<>>
    /\ run = 1
    /\ series = <<>>
    /\ series1 = <<>>
    /\ data1 = <<>>
    /\ tmp = <<>>
    /\ returned = <<>>

(***************************************************************************)
(* One date of one strategy call.  `r` is the date's row of self.data.     *)
(***************************************************************************)
\* __daily_basis writes the column, the generator's iteration reads it
Classify(r) ==
    basis' = daily_basis(r, Col(future_index_ticker, Str_open),
                            Col(spot_index_ticker, Str_open))

Emit(r) ==
    LET g == Generate(policy, positions, basis', r)
    IN  /\ positions' = g.positions
        /\ signals' = SignalsRow(Keys(policy), g.signals)

\* The generator's iteration for the date
Read(r) ==
    /\ snapshot.raised = ""
    /\ row' = r
    /\ Classify(r)
    /\ Emit(r)
    /\ n' = n + 1
    /\ UNCHANGED <<policy, intial_capital>>

\* The date's row of the result frame
Value(r) == snapshot' = Result(policy, ledger', r)

LsvFirstDate(r) ==
    /\ policy = "lsv" /\ n = 0
    /\ Read(r)
    /\ ledger' = lsv_first_trade(ledger, signals')
    /\ Value(r)

LsvNextDate(r) ==
    /\ policy = "lsv" /\ n > 0 /\ n < MaxDates
    /\ Read(r)
    /\ ledger' = lsv_date(ledger, signals')
    /\ Value(r)

HlsvFirstDate(r) ==
    /\ policy = "hlsv" /\ n = 0
    /\ Read(r)
    /\ ledger' = hlsv_first_trade(ledger, signals')
    /\ Value(r)

HlsvNextDate(r) ==
    /\ policy = "hlsv" /\ n > 0 /\ n < MaxDates
    /\ Read(r)
    /\ ledger' = hlsv_date(ledger, signals')
    /\ Value(r)

LslvFirstDate(r) ==
    /\ policy = "lslv" /\ n = 0
    /\ Read(r)
    /\ ledger' = lslv_first_trade(ledger, signals')
    /\ Value(r)

LslvNextDate(r) ==
    /\ policy = "lslv" /\ n > 0 /\ n < MaxDates
    /\ Read(r)
    /\ ledger' = lslv_date(ledger, signals')
    /\ Value(r)

Next ==
    \/ \E r \in Rows : LsvFirstDate(r) /\ UNCHANGED repeatVars
    \/ \E r \in Rows : LsvNextDate(r) /\ UNCHANGED repeatVars
    \/ \E r \in Rows : HlsvFirstDate(r) /\ UNCHANGED repeatVars
    \/ \E r \in Rows : HlsvNextDate(r) /\ UNCHANGED repeatVars
    \/ \E r \in Rows : LslvFirstDate(r) /\ UNCHANGED repeatVars
    \/ \E r \in Rows : LslvNextDate(r) /\ UNCHANGED repeatVars

Spec == Init /\ [][Next]_vars

(***************************************************************************)
(* Repeated calls on the same table.  The first call reads the rows of     *)
(* self.data and __daily_basis writes the basis column into it; a second   *)
(* call of the same method with the same arguments starts from the         *)
(* method's initial values and reads the table the first call left.        *)
(***************************************************************************)
BasisCol == <<"b", "a", "s", "i", "s">>

\* The write that stores the basis in the future column
write_basis_over_future(r, b) ==
    [k \in DOMAIN r |-> IF k = Col(future_index_ticker, Str_open) THEN b.num ELSE r[k]]

\* self.data["basis"] = ...: the row of the table after the write
write_basis(r, b) ==
    [k \in DOMAIN r \cup {BasisCol} |-> IF k = BasisCol THEN b ELSE r[k]]

RepeatRows == {MakeRow(fs, o, c) : fs \in FutSpot,
                                   o \in {<<3, 1, 1>>, <<1, 3, 3>>},
                                   c \in {<<2, 5, 7>>}}

Date(r) ==
    \/ LsvFirstDate(r)
    \/ LsvNextDate(r)
    \/ HlsvFirstDate(r)
    \/ HlsvNextDate(r)
    \/ LslvFirstDate(r)
    \/ LslvNextDate(r)

\* A date of the first call: the row joins the table
FirstCall ==
    /\ run = 1
    /\ \E r \in RepeatRows :
          /\ Date(r)
          /\ data' = Append(data, write_basis(r, basis'))
    /\ series' = Append(series, snapshot')
    /\ UNCHANGED <<run, series1>>
    /\ UNCHANGED metricVars

\* The first call returns its frame and the method is called again
CallAgain ==
    /\ run = 1 /\ n >= 1 /\ snapshot.raised = ""
    /\ run' = 2
    /\ series1' = series
    /\ series' = <<>>
    /\ n' = 0
    /\ row' = <<>>
    /\ basis' = NaN
    /\ positions' = InitialPositions(policy)
    /\ signals' = <<>>
    /\ ledger' = InitialLedger(policy, intial_capital)
    /\ snapshot' = [raised |-> ""]
    /\ UNCHANGED <<policy, intial_capital, data>>
    /\ UNCHANGED metricVars

\* A date of the second call: the row is the one the table holds
SecondCall ==
    /\ run = 2 /\ n < Len(data)
    /\ Date(data[n + 1])
    /\ data' = [data EXCEPT ![n + 1] = write_basis(@, basis')]
    /\ series' = Append(series, snapshot')
    /\ UNCHANGED <<run, series1>>
    /\ UNCHANGED metricVars

NextRepeat == FirstCall \/ CallAgain \/ SecondCall

SpecRepeat == Init /\ [][NextRepeat]_vars

(***************************************************************************)
(* Tables with undefined cells: the future or the spot of a date, or the   *)
(* close price of a tradable, is NaN.                                      *)
(***************************************************************************)
MissingColumns ==
    {{}, {Col(future_index_ticker, Str_open)}, {Col(spot_index_ticker, Str_open)},
     {Col(long_vix_asset, Str_close)}, {Col(hedge_asset, Str_close)}}

MissingRows == {MaskedRow(r, columns) : r \in RepeatRows, columns \in MissingColumns}

NextMissing == \E r \in MissingRows : Date(r) /\ UNCHANGED repeatVars

SpecMissing == Init /\ [][NextMissing]_vars

(***************************************************************************)
(* Exact fractions for the return columns.  A zero denominator stands for  *)
(* what the floating point gives: 0/0 is NaN, 1/0 is inf, -1/0 is -inf.    *)
(***************************************************************************)
Abs(x) == IF x < 0 THEN -x ELSE x

Sign(x) == IF x < 0 THEN -1 ELSE IF x > 0 THEN 1 ELSE 0

RECURSIVE GCD(_, _)
GCD(a, b) == IF b = 0 THEN a ELSE GCD(b, a % b)

\* num / den in lowest terms, the denominator positive
Frac(num, den) ==
    IF den = 0 THEN [num |-> Sign(num), den |-> 0]
    ELSE LET g == GCD(Abs(num), Abs(den))
         IN  [num |-> Sign(den) * (num \div g), den |-> Abs(den) \div g]

NaNFrac == Frac(0, 0)

\* a * b
FracMul(a, b) == Frac(a.num * b.num, a.den * b.den)

\* 1 + a
OnePlus(a) == Frac(a.den + a.num, a.den)

\* a - 1
MinusOne(a) == Frac(a.num - a.den, a.den)

\* The change that keeps the ratio and forgets the - 1
pct_change_ratio(values) ==
    [i \in 1..Len(values) |->
        IF i = 1 THEN NaNFrac ELSE Frac(values[i], values[i - 1])]

\* res["portfolio_value"].pct_change(): NaN on the first row, then
\* value / previous value - 1
pct_change(values) ==
    [i \in 1..Len(values) |->
        IF i = 1 THEN NaNFrac ELSE Frac(values[i] - values[i - 1], values[i - 1])]

\* Series.cumprod() with skipna: a NaN stays NaN and is left out of the
\* product.  `acc` is <<the product so far>>, or <<>> before the first value.
RECURSIVE cumprod_from(_, _)
cumprod_from(xs, acc) ==
    IF xs = <<>> THEN <<>>
    ELSE IF Head(xs) = NaNFrac THEN <<NaNFrac>> \o cumprod_from(Tail(xs), acc)
    ELSE LET p == IF acc = <<>> THEN Head(xs) ELSE FracMul(acc[1], Head(xs))
         IN  <<p>> \o cumprod_from(Tail(xs), <<p>>)

cumprod(xs) == cumprod_from(xs, <<>>)

\* (1 + res["portfolio_returns"]).cumprod() - 1
cumulative_returns(returns) ==
    LET factors == [i \in 1..Len(returns) |-> OnePlus(returns[i])]
        products == cumprod(factors)
    IN  [i \in 1..Len(returns) |-> MinusOne(products[i])]

(***************************************************************************)
(* A strategy call on a whole table.  get_data has built self.data before  *)
(* the call; the loops read the row of their index; the result frame has   *)
(* one row per entry of the history lists, and its return columns are      *)
(* computed from the portfolio_value column.                               *)
(***************************************************************************)
TableRows ==
    {MakeRow(<<2, 3>>, <<3, 1, 1>>, <<2, 5, 7>>),
     MakeRow(<<3, 2>>, <<1, 3, 3>>, <<5, 2, 3>>),
     MakeRow(<<2, 2>>, <<1, 1, 1>>, <<2, 5, 7>>)}

Tables == UNION {[1..k -> TableRows] : k \in 1..MaxDates}

\* The read that takes the row of the next date when there is one
RowAhead(table, index) == table[IF index < Len(table) THEN index + 1 ELSE index]

\* df.iloc[index], signals_df.iloc[index], self.data.loc[date]
RowAt(table, index) == table[index]

\* The history lists that get no entry on a date without events
append_on_events(history, entry) ==
    IF NotNaN(Keys(policy), entry.signals) = <<>>
    THEN history
    ELSE Append(history, entry)

\* asset_history.append(...), holdings_history.append(...), cash_history.append(...)
append_history(history, entry) == Append(history, entry)

\* The portfolio_value column of the rows
PortfolioValues(rows) == [i \in 1..Len(rows) |-> rows[i].result.portfolio_value]

\* The rows of the result frame with their portfolio_returns and
\* portfolio_cumulative_returns
result_frame(rows) ==
    LET returns == pct_change(PortfolioValues(rows))
        cumulative == cumulative_returns(returns)
    IN  [i \in 1..Len(rows) |->
            [index |-> rows[i].index,
             basis |-> rows[i].basis,
             signals |-> rows[i].signals,
             ledger |-> rows[i].ledger,
             result |-> rows[i].result,
             portfolio_returns |-> returns[i],
             portfolio_cumulative_returns |-> cumulative[i]]]

\* get_data: self.data = yf_data.join(manual_upload[col_rename])
LoadTable ==
    /\ run = 1 /\ n = 0 /\ data = <<>>
    /\ data' \in Tables
    /\ UNCHANGED <<policy, intial_capital, n, row, basis, positions, signals, ledger,
                   snapshot, run, series, series1>>
    /\ UNCHANGED metricVars

\* One date of the call on the table
TableDate ==
    /\ data # <<>> /\ n < Len(data)
    /\ Date(RowAt(data, n + 1))
    /\ series' = result_frame(append_history(series,
                     [index |-> n', basis |-> basis', signals |-> signals',
                      ledger |-> ledger', result |-> snapshot']))
    /\ UNCHANGED <<data, run, series1>>
    /\ UNCHANGED metricVars

\* The call has returned; the same method is called with the same arguments
\* on another table with the same first date
OtherTable ==
    /\ run = 1 /\ n >= 1 /\ n = Len(data) /\ snapshot.raised = ""
    /\ run' = 2
    /\ data1' = data
    /\ series1' = series
    /\ data' \in {t \in Tables : t[1] = data[1]}
    /\ series' = <<>>
    /\ n' = 0
    /\ row' = <<>>
    /\ basis' = NaN
    /\ positions' = InitialPositions(policy)
    /\ signals' = <<>>
    /\ ledger' = InitialLedger(policy, intial_capital)
    /\ snapshot' = [raised |-> ""]
    /\ UNCHANGED <<policy, intial_capital, tmp, returned>>

NextTable == LoadTable \/ TableDate

\* for index in range(len(df)), for index in range(1, len(signals_df)): the
\* loop index moves to the next date of the table
NextIndex == data # <<>> /\ n < Len(data) /\ n' = n + 1

\* The loops of a call run on while the table has a further date
FairTable == Init /\ [][NextTable]_vars /\ WF_n(NextIndex)

NextTwoTables == LoadTable \/ TableDate \/ OtherTable

SpecTwoTables == Init /\ [][NextTwoTables]_vars

(***************************************************************************)
(* PerformanceMetrics.maximum_drawdown on a series of portfolio values     *)
(***************************************************************************)
MaxLen == 4

MaxValue == 3

strategyVars == <<policy, intial_capital, n, row, basis, positions, signals, ledger,
                  snapshot, data, run, series, series1, data1>>

\* a < b for fractions with positive denominators
FracLess(a, b) == a.num * b.den < b.num * a.den

\* tmp.cummax(): `peak` is <<the maximum so far>>, or <<>> before the first value
RECURSIVE cummax_from(_, _)
cummax_from(xs, peak) ==
    IF xs = <<>> THEN <<>>
    ELSE LET m == IF peak = <<>> \/ peak[1] < Head(xs) THEN Head(xs) ELSE peak[1]
         IN  <<m>> \o cummax_from(Tail(xs), <<m>>)

\* The running minimum
cummin(xs) ==
    [i \in 1..Len(xs) |->
        CHOOSE m \in {xs[j] : j \in 1..i} : \A j \in 1..i : m <= xs[j]]

cummax(xs) == cummax_from(xs, <<>>)

\* Series.min(): NaN for the empty series, NaN values left out
RECURSIVE series_min(_)
series_min(xs) ==
    IF xs = <<>> THEN NaNFrac
    ELSE LET rest == series_min(Tail(xs))
         IN  IF Head(xs) = NaNFrac THEN rest
             ELSE IF rest = NaNFrac \/ FracLess(Head(xs), rest) THEN Head(xs)
             ELSE rest

maximum_drawdown(portfolio_value) ==
    LET cumulative_max == cummax(portfolio_value)
        drawdown == [i \in 1..Len(portfolio_value) |->
                        Frac(portfolio_value[i] - cumulative_max[i], cumulative_max[i])]
    IN  series_min(drawdown)

\* The caller's series of portfolio values gets one more date
NextValue ==
    /\ returned = <<>> /\ Len(tmp) < MaxLen
    /\ \E v \in 1..MaxValue : tmp' = Append(tmp, v)
    /\ UNCHANGED returned
    /\ UNCHANGED strategyVars

\* maximum_drawdown(portfolio_value) is called and returns
CallMaximumDrawdown ==
    /\ returned = <<>>
    /\ returned' = <<maximum_drawdown(tmp)>>
    /\ UNCHANGED tmp
    /\ UNCHANGED strategyVars

NextDrawdown == NextValue \/ CallMaximumDrawdown

SpecDrawdown == Init /\ [][NextDrawdown]_vars

(***************************************************************************)
(* Vocabulary of the properties                                            *)
(***************************************************************************)
Open(r, ticker) == r[Col(ticker, Str_open)]

Close(r, ticker) == r[Col(ticker, Str_close)]

Future(r) == r[Col(future_index_ticker, Str_open)]

Spot(r) == r[Col(spot_index_ticker, Str_open)]

\* The events of the date: the names of the signals row that hold a price
Events == NotNaN(Keys(policy), signals)

\* The holding of every leg, the cash balance and the identity of every leg
Holdings(st) ==
    IF policy = "lsv" THEN <<st.max_holding>> ELSE <<st.asset_holding, st.hedge_holding>>

Identities(st) ==
    IF policy = "lsv" THEN <<st.current_asset>> ELSE <<st.current_asset, st.current_hedge>>

\* The instrument of the main leg that the generator's open slot names
MainInstrument(p) == IF p.long_vix_asset THEN long_vix_asset ELSE short_vix_asset

(***************************************************************************)
(* C1: in Rotate-2 the long-vol slot and the short-vol slot are never both *)
(* open, and after the first date exactly one of them is open.             *)
(***************************************************************************)
C1_RotateMutualExclusion ==
    policy = "lsv" =>
        /\ ~(positions.long_vix_asset /\ positions.short_vix_asset)
        /\ (n >= 1 => positions.long_vix_asset # positions.short_vix_asset)

\* A flip from short-vol to long-vol has been processed.
C1_Witness ==
    /\ policy = "lsv" /\ n >= 2
    /\ signals[short_sell] # NaN
    /\ positions.long_vix_asset

(***************************************************************************)
(* C2: in Hedge-2x2 the cash balance recorded after every date is never    *)
(* negative.  The ledger violates it: the first date always opens the      *)
(* hedge short, and closing that short at a higher price overdraws cash.   *)
(***************************************************************************)
C2_HedgedCashNonNegative ==
    (policy = "hlsv" /\ n >= 1) => ledger.available_cash >= 0

(***************************************************************************)
(* C3: in Rotate-2 and Partial-Rotate the cash balance after the date's    *)
(* Buy is never negative, and the lot is the floor: what is left is less   *)
(* than the price of one more hundredth of a unit.                         *)
(***************************************************************************)
\* The reference price of the lot bought on the date
BoughtAt ==
    IF policy = "lslv" /\ n = 1 THEN Open(row, long_hedge_asset)
    ELSE signals[Events[Len(Events)]][1]

C4_HedgeSellQuarter ==
    [][(policy = "lslv" /\ n' = n + 1 /\ signals'[hedge_75_sell] # NaN) =>
          /\ 4 * ledger'.hedge_holding = 3 * ledger.hedge_holding
          /\ ledger'.hedge_holding # 0
          /\ 4 * (ledger'.available_cash
                  + ledger'.asset_holding * Open(row', long_vix_asset))
             = 4 * ledger.available_cash
               + ledger.hedge_holding * Open(row', long_hedge_asset)]_vars

(***************************************************************************)
(* C5: the reported portfolio value of every date is the cash balance plus *)
(* the holding of every leg times the date's close price of the instrument *)
(* that leg holds.                                                         *)
(***************************************************************************)
C5_ValueIsAssetsPlusCash ==
    n >= 1 =>
        /\ snapshot.raised = ""
        /\ snapshot.portfolio_value =
             IF policy = "lsv"
             THEN ledger.max_holding * Close(row, MainInstrument(positions))
                  + ledger.available_cash
             ELSE IF policy = "hlsv"
             THEN ledger.asset_holding * Close(row, MainInstrument(positions))
                  + ledger.hedge_holding * Close(row, hedge_asset)
                  + ledger.available_cash
             ELSE ledger.asset_holding * Close(row, long_vix_asset)
                  + ledger.hedge_holding * Close(row, long_hedge_asset)
                  + ledger.available_cash

\* Two legs are held after a flip, at different close prices.
C5_Witness ==
    /\ policy = "hlsv" /\ n >= 2
    /\ Events # <<>>
    /\ ledger.asset_holding # 0 /\ ledger.hedge_holding # 0
    /\ snapshot.raised = ""
    /\ snapshot.asset_value # snapshot.hedge_value

(***************************************************************************)
(* C6: in Rotate-2, a date after the first whose regime differs from the   *)
(* previous date's emits exactly the Sell of the open slot and the Buy of  *)
(* the other, and the new lot is sized from the cash after the Sell.       *)
(***************************************************************************)
C6_FlipSellThenBuy ==
    [][(policy = "lsv" /\ n >= 1 /\ n' = n + 1
        /\ (Future(row) < Spot(row)) # (Future(row') < Spot(row'))) =>
          LET old == MainInstrument(positions)
              new == IF old = long_vix_asset THEN short_vix_asset ELSE long_vix_asset
              sell == SignalName(old, Str_sell)
              buy == SignalName(new, Str_buy)
              cashAfterSell == ledger.available_cash
                               + ledger.max_holding * Open(row', old)
          IN  /\ NotNaN(lsv_asset_signals, signals') = <<sell, buy>>
              /\ signals'[sell] = <<Open(row', old)>>
              /\ signals'[buy] = <<Open(row', new)>>
              /\ ledger'.max_holding * Open(row', new) <= cashAfterSell
              /\ cashAfterSell < (ledger'.max_holding + Scale) * Open(row', new)
              /\ ledger'.max_holding % Scale = 0
              /\ ledger'.available_cash
                 = cashAfterSell - ledger'.max_holding * Open(row', new)]_vars

\* A flip has been processed and bought a lot with the proceeds of the sale.
C6_Witness ==
    /\ policy = "lsv" /\ n >= 2
    /\ signals[long_sell] # NaN /\ signals[short_buy] # NaN
    /\ ledger.max_holding > 0
    /\ ledger.available_cash > 0

(***************************************************************************)
(* C7: the first date of Hedge-2x2 sizes the main lot and the hedge lot    *)
(* each as the floor of half the capital over the leg's open price.  The   *)
(* ledger violates it: the hedge lot is floor(-(C0/2) / hedgeOpen * 100) / *)
(* 100, a short position, also when the first date opens Hedge-Long.       *)
(***************************************************************************)
C7_BootstrapSplit ==
    (policy = "hlsv" /\ n = 1) =>
        /\ ledger.asset_holding
           = Lot(Half(intial_capital * Scale), Open(row, MainInstrument(positions)))
        /\ ledger.hedge_holding
           = Lot(Half(intial_capital * Scale), Open(row, hedge_asset))

(***************************************************************************)
(* C8: a date after the first with no events leaves every holding, the     *)
(* cash balance and every identity as they were, and its row of the result *)
(* frame is still produced from them.                                      *)
(***************************************************************************)
C8_NoEventsHold ==
    [][(n >= 1 /\ n' = n + 1 /\ NotNaN(Keys(policy), signals') = <<>>) =>
          /\ Holdings(ledger') = Holdings(ledger)
          /\ ledger'.available_cash = ledger.available_cash
          /\ Identities(ledger') = Identities(ledger)
          /\ snapshot'.raised = ""
          /\ snapshot'.available_cash = ledger.available_cash
          /\ IF policy = "lsv"
             THEN /\ snapshot'.holding_quantity = ledger.max_holding
                  /\ snapshot'.asset_history = ledger.current_asset
             ELSE /\ snapshot'.asset_quantity = ledger.asset_holding
                  /\ snapshot'.hedge_quantity = ledger.hedge_holding
                  /\ snapshot'.asset_history = ledger.current_asset
                  /\ snapshot'.hedge_history = ledger.current_hedge]_vars

\* A date without events has been processed while a position was held.
C8_Witness ==
    /\ n >= 2
    /\ Events = <<>>
    /\ Holdings(ledger)[1] # 0

(***************************************************************************)
(* C10: the date is treated as Backwardation exactly when its future price *)
(* is below its spot price, and as Contango otherwise, equality included;  *)
(* the basis is future/spot - 1 of the date's own row.                     *)
(***************************************************************************)
\* The slot state the generator leaves after a Backwardation date
BackwardationOpen ==
    IF policy = "lslv"
    THEN positions.long_vix_asset_25 /\ ~positions.long_hedge_asset_100
    ELSE positions.long_vix_asset /\ ~positions.short_vix_asset

\* The slot state the generator leaves after a Contango date
ContangoOpen ==
    IF policy = "lslv"
    THEN positions.long_hedge_asset_100 /\ ~positions.long_vix_asset_25
    ELSE positions.short_vix_asset /\ ~positions.long_vix_asset

C10_RegimeFromBasisSign ==
    n >= 1 =>
        /\ basis.den * Future(row) = (basis.num + basis.den) * Spot(row)
        /\ (Future(row) < Spot(row)) <=> BackwardationOpen
        /\ (Future(row) >= Spot(row)) <=> ContangoOpen

\* A date with future = spot has closed the long-vol slot.
C10_Witness ==
    /\ policy = "lsv" /\ n >= 2
    /\ Future(row) = Spot(row)
    /\ signals[long_sell] # NaN

(***************************************************************************)
(* C9: a second call of a strategy method on the same table with the same  *)
(* arguments returns the frame the first call returned; what the first     *)
(* call wrote into the table does not change the result.                   *)
(***************************************************************************)
C9_RepeatIsIdentical ==
    run = 2 =>
        /\ series = SubSeq(series1, 1, Len(series))
        /\ (n = Len(data) => series = series1)

\* The second call has finished a table on which the first call traded twice.
C9_Witness ==
    /\ run = 2 /\ n = Len(data) /\ n >= 2
    /\ Events # <<>>
    /\ series = series1

(***************************************************************************)
(* Vocabulary of the regime                                                *)
(***************************************************************************)
\* The regime of a date: Backwardation when future < spot, Contango otherwise
Regime(r) == IF Future(r) < Spot(r) THEN "Backwardation" ELSE "Contango"

\* The event table of the date holds a price under the name
HasEvent(sigrow, k) == sigrow[k] # NaN

EventSet(sigrow) == {k \in DOMAIN sigrow : HasEvent(sigrow, k)}

(***************************************************************************)
(* C13: in Hedge-2x2 every Buy or Sell of the long-vol leg comes on the    *)
(* same date as the Buy or Sell of the long hedge, every Buy or Sell of    *)
(* the short-vol leg with the one of the short hedge; a date whose regime  *)
(* differs from the date before emits exactly Sell(old main), Sell(old     *)
(* hedge), Buy(new main), Buy(new hedge); after every date the long hedge  *)
(* flag equals the long-vol flag, the short hedge flag equals the          *)
(* short-vol flag, and the two vol flags are not both set.                 *)
(***************************************************************************)
C13_HedgePairing ==
    [][(policy = "hlsv" /\ n' = n + 1) =>
          /\ HasEvent(signals', long_buy) <=> HasEvent(signals', lh_buy)
          /\ HasEvent(signals', long_sell) <=> HasEvent(signals', lh_sell)
          /\ HasEvent(signals', short_buy) <=> HasEvent(signals', sh_buy)
          /\ HasEvent(signals', short_sell) <=> HasEvent(signals', sh_sell)
          /\ (n >= 1 /\ Regime(row') # Regime(row)) =>
                EventSet(signals') =
                    IF Regime(row') = "Backwardation"
                    THEN {short_sell, sh_sell, long_buy, lh_buy}
                    ELSE {long_sell, lh_sell, short_buy, sh_buy}
          /\ positions'.long_hedge_asset = positions'.long_vix_asset
          /\ positions'.short_hedge_asset = positions'.short_vix_asset
          /\ ~(positions'.long_vix_asset /\ positions'.short_vix_asset)
    ]_vars

\* A second flip of Hedge-2x2: the third date returns to Backwardation
C13_Witness ==
    /\ policy = "hlsv" /\ n = 3
    /\ Regime(row) = "Backwardation"
    /\ Len(Events) = 4
    /\ positions.long_vix_asset /\ positions.long_hedge_asset

(***************************************************************************)
(* C14: in Partial-Rotate, after every date the slots are exactly          *)
(* {Vol-25 open, Hedge-75 open, Hedge-100 closed} when the date is in      *)
(* Backwardation and exactly {Hedge-100 open, Vol-25 closed, Hedge-75      *)
(* closed} when it is in Contango; Hedge-100 is never open together with   *)
(* Vol-25 or Hedge-75, and Vol-25 and Hedge-75 are open or closed          *)
(* together.                                                               *)
(***************************************************************************)
C14_PartialRotateSlots ==
    policy = "lslv" =>
        /\ n >= 1 =>
              IF Regime(row) = "Backwardation"
              THEN /\ positions.long_vix_asset_25
                   /\ positions.long_hedge_asset_75
                   /\ ~positions.long_hedge_asset_100
              ELSE /\ positions.long_hedge_asset_100
                   /\ ~positions.long_vix_asset_25
                   /\ ~positions.long_hedge_asset_75
        /\ ~(positions.long_hedge_asset_100 /\ positions.long_vix_asset_25)
        /\ ~(positions.long_hedge_asset_100 /\ positions.long_hedge_asset_75)
        /\ positions.long_vix_asset_25 <=> positions.long_hedge_asset_75

\* Partial-Rotate re-enters Backwardation on a later date, out of the full hedge
C14_Witness ==
    /\ policy = "lslv" /\ n >= 2
    /\ Regime(row) = "Backwardation"
    /\ Events # <<>>
    /\ positions.long_vix_asset_25

(***************************************************************************)
(* C18: in every policy, on every date after the first, the generator      *)
(* emits at least one event exactly when the date's regime differs from    *)
(* the regime of the date before; otherwise it emits none.                 *)
(***************************************************************************)
C18_EventsIffRegimeChange ==
    [][(n >= 1 /\ n' = n + 1) =>
          (NotNaN(Keys(policy), signals') # <<>> <=> Regime(row') # Regime(row))
    ]_vars

\* The third date changes the regime back and the generator emits events again
C18_Witness ==
    /\ n = 3
    /\ Events # <<>>
    /\ policy = "lslv"
    /\ Regime(row) = "Backwardation"

\* The names of the date's events that hold the word, in column order
EventsOf(keys, sigrow, word) ==
    SelectSeq(NotNaN(keys, sigrow), LAMBDA k : Contains(word, k))

(***************************************************************************)
(* C15: in Partial-Rotate the ledger after the first date holds the leg    *)
(* that the first date's Buy names: a lot of the volatility instrument     *)
(* when the first date is in Backwardation, a lot of the hedge bought at   *)
(* its open price when it is in Contango; the legs the ledger holds are    *)
(* the slots the generator has open.                                       *)
(***************************************************************************)
C15_BootstrapOpensIndicatedLeg ==
    (policy = "lslv" /\ n = 1) =>
        /\ Regime(row) = "Backwardation" =>
              /\ ledger.asset_holding > 0
              /\ ledger.current_asset = extract_asset_name(vix_25_buy)
        /\ Regime(row) = "Contango" =>
              /\ ledger.hedge_holding = Lot(intial_capital * Scale, Open(row, hedge_asset))
              /\ ledger.current_hedge = extract_asset_name(hedge_100_buy)
        /\ positions.long_vix_asset_25 <=> ledger.asset_holding > 0
        /\ (positions.long_hedge_asset_75 \/ positions.long_hedge_asset_100)
              <=> ledger.hedge_holding > 0

(***************************************************************************)
(* C16: on the first date the event table of every policy holds Buy events *)
(* only: exactly one in Rotate-2, exactly two in Hedge-2x2, one or two in  *)
(* Partial-Rotate, and no Sell event.                                      *)
(***************************************************************************)
C16_FirstDateOnlyBuys ==
    n = 1 =>
        /\ EventsOf(Keys(policy), signals, Str_sell) = <<>>
        /\ policy = "lsv" => Len(EventsOf(Keys(policy), signals, Str_buy)) = 1
        /\ policy = "hlsv" => Len(EventsOf(Keys(policy), signals, Str_buy)) = 2
        /\ policy = "lslv" => Len(EventsOf(Keys(policy), signals, Str_buy)) \in {1, 2}

(***************************************************************************)
(* C17: in Hedge-2x2, on every date after the first that has events, the   *)
(* lots of both Buys are sized from exactly half of the cash balance that  *)
(* stands after all the Sells of the date (every Sell is applied before    *)
(* any Buy), and the cash recorded for the date is what the two halves     *)
(* have left.  `sold` is that cash balance; a lot is the largest multiple  *)
(* of 0.01 whose cost does not exceed the half (the negated half for a     *)
(* short hedge).                                                           *)
(***************************************************************************)
C17_SellsThenHalfCash ==
    [][(policy = "hlsv" /\ n >= 1 /\ n' = n + 1
            /\ NotNaN(hlsv_asset_signals, signals') # <<>>) =>
          LET sold == ledger.available_cash
                        + ledger.asset_holding * Open(row', ledger.current_asset)
                        + ledger.hedge_holding * Open(row', hedge_asset)
              asset_price == Open(row', ledger'.current_asset)
              hedge_price == Open(row', hedge_asset)
              sign == IF Contains(Str_short, ledger'.current_hedge) THEN -1 ELSE 1
          IN  /\ ledger'.asset_holding % Scale = 0
              /\ 2 * ledger'.asset_holding * asset_price <= sold
              /\ sold < 2 * (ledger'.asset_holding + Scale) * asset_price
              /\ ledger'.hedge_holding % Scale = 0
              /\ 2 * ledger'.hedge_holding * hedge_price <= sign * sold
              /\ sign * sold < 2 * (ledger'.hedge_holding + Scale) * hedge_price
              /\ ledger'.available_cash =
                     sold - ledger'.asset_holding * asset_price
                          - ledger'.hedge_holding * hedge_price
    ]_vars

\* Hedge-2x2 flips to Contango on the second date and sells both legs
C17_Witness ==
    /\ policy = "hlsv" /\ n = 2
    /\ Regime(row) = "Contango"
    /\ Len(EventsOf(hlsv_asset_signals, signals, Str_sell)) = 2
    /\ Len(EventsOf(hlsv_asset_signals, signals, Str_buy)) = 2
    /\ ledger.asset_holding > 0

(***************************************************************************)
(* C19: in every policy a full-exit Sell credits the cash balance with     *)
(* holding * reference price, sets the holding of the leg to zero and      *)
(* clears the identity of the leg (None) before any Buy of the date is     *)
(* processed: the Sell of Rotate-2, the Sells of the main and the hedge    *)
(* leg of Hedge-2x2, the Sell(Vol-25) of Partial-Rotate.                   *)
(***************************************************************************)
C19_FullExitSell ==
    [][(n >= 1 /\ n' = n + 1) =>
          /\ (policy = "lsv" /\ EventsOf(lsv_asset_signals, signals', Str_sell) # <<>>) =>
                LET mid == lsv_after_sells(ledger, signals')
                IN  /\ mid.available_cash = ledger.available_cash
                          + ledger.max_holding * Open(row', ledger.current_asset)
                    /\ mid.max_holding = 0
                    /\ mid.current_asset = None
          /\ (policy = "hlsv" /\ EventsOf(hlsv_asset_signals, signals', Str_sell) # <<>>) =>
                LET mid == hlsv_after_sells(ledger, signals')
                IN  /\ mid.available_cash = ledger.available_cash
                          + ledger.asset_holding * Open(row', ledger.current_asset)
                          + ledger.hedge_holding * Open(row', hedge_asset)
                    /\ mid.asset_holding = 0 /\ mid.hedge_holding = 0
                    /\ mid.current_asset = None /\ mid.current_hedge = None
          /\ (policy = "lslv" /\ HasEvent(signals', vix_25_sell)) =>
                LET mid == lslv_after_asset_sell(ledger, signals')
                IN  /\ mid.available_cash = ledger.available_cash
                          + ledger.asset_holding * Open(row', long_vix_asset)
                    /\ mid.asset_holding = 0
                    /\ mid.current_asset = None
    ]_vars

\* What a ledger is worth at the open prices of a row
Wealth(pol, st, r) ==
    IF pol = "lsv"
    THEN st.available_cash
           + (IF st.current_asset = None THEN 0
              ELSE st.max_holding * Open(r, st.current_asset))
    ELSE IF pol = "hlsv"
    THEN st.available_cash
           + (IF st.current_asset = None THEN 0
              ELSE st.asset_holding * Open(r, st.current_asset))
           + st.hedge_holding * Open(r, hedge_asset)
    ELSE st.available_cash + st.asset_holding * Open(r, long_vix_asset)
                           + st.hedge_holding * Open(r, hedge_asset)

(***************************************************************************)
(* C20: the trades of every date are self-financing in every policy: at    *)
(* the open prices of the date, cash + sum over the legs of holding * open *)
(* price is the same before and after the trades of the date, and after    *)
(* the first date it is the initial capital.                               *)
(***************************************************************************)
C20_SelfFinancing ==
    [][n' = n + 1 =>
          /\ Wealth(policy, ledger', row') = Wealth(policy, ledger, row')
          /\ n = 0 => Wealth(policy, ledger', row') = intial_capital * Scale
    ]_vars

\* A date after the first on which holdings are sold and bought at new prices
C20_Witness ==
    /\ n >= 2
    /\ Events # <<>>
    /\ ledger.available_cash # intial_capital * Scale
    /\ Holdings(ledger) # Holdings(InitialLedger(policy, intial_capital))

\* The future or the spot price of the row is undefined
IndexMissing(r) ==
    IsNaN(r, Col(future_index_ticker, Str_open)) \/ IsNaN(r, Col(spot_index_ticker, Str_open))

(***************************************************************************)
(* C11: when the future or the spot price of a date is undefined the run   *)
(* fails with a MissingDataError: the date is assigned no regime and no    *)
(* signal is generated from it.                                            *)
(***************************************************************************)
C11_MissingDataRaises ==
    (n >= 1 /\ IndexMissing(row)) =>
        /\ snapshot.raised = "MissingDataError"
        /\ Events = <<>>

\* A leg of the ledger holds an instrument whose close price the row lacks
HeldCloseMissing(pol, st, r) ==
    IF pol = "lsv"
    THEN st.max_holding # 0 /\ IsNaN(r, Col(st.current_asset, Str_close))
    ELSE IF pol = "hlsv"
    THEN \/ st.asset_holding # 0 /\ IsNaN(r, Col(st.current_asset, Str_close))
         \/ st.hedge_holding # 0 /\ IsNaN(r, Col(hedge_asset, Str_close))
    ELSE \/ st.asset_holding # 0 /\ IsNaN(r, Col(long_vix_asset, Str_close))
         \/ st.hedge_holding # 0 /\ IsNaN(r, Col(hedge_asset, Str_close))

(***************************************************************************)
(* C12: when a leg holds an instrument that has no close price on a date,  *)
(* the simulation aborts with a DataConsistencyError at that date, and     *)
(* holdings, cash and identity are not advanced past that date.            *)
(***************************************************************************)
C12_MissingCloseAborts ==
    [][/\ (n' = n + 1 /\ HeldCloseMissing(policy, ledger', row')) =>
              snapshot'.raised = "DataConsistencyError"
       /\ (n >= 1 /\ HeldCloseMissing(policy, ledger, row)) =>
              (n' = n /\ ledger' = ledger)
    ]_vars

(***************************************************************************)
(* C21: in Hedge-2x2 the sign of the hedge holding matches the open hedge  *)
(* slot after every date, the first included: the hedge quantity is >= 0   *)
(* when the long hedge slot is open and <= 0 when the short hedge slot is  *)
(* open.                                                                   *)
(***************************************************************************)
C21_HedgeSignMatchesSlot ==
    (policy = "hlsv" /\ n >= 1) =>
        /\ positions.long_hedge_asset => ledger.hedge_holding >= 0
        /\ positions.short_hedge_asset => ledger.hedge_holding <= 0

\* The quantity is a whole number of hundredths of a unit
IsHundredths(q) == q % Scale = 0

(***************************************************************************)
(* C22: in every policy the holding of every leg recorded after every date *)
(* is an integer multiple of 0.01 units, partial exits included.           *)
(***************************************************************************)
C22_HoldingsAreHundredths ==
    n >= 1 => \A i \in 1..Len(Holdings(ledger)) : IsHundredths(Holdings(ledger)[i])

(***************************************************************************)
(* C23: in Rotate-2 the ledger follows the generator: after every date the *)
(* ledger holds one instrument, its identity is never None, and it is the  *)
(* long-vol instrument when the date is in Backwardation and the short-vol *)
(* instrument when it is in Contango, the instrument of the one open slot. *)
(***************************************************************************)
C23_LedgerFollowsGenerator ==
    (policy = "lsv" /\ n >= 1) =>
        /\ ledger.current_asset # None
        /\ ledger.current_asset =
              IF Regime(row) = "Backwardation" THEN long_vix_asset ELSE short_vix_asset
        /\ ledger.current_asset = MainInstrument(positions)
        /\ positions.long_vix_asset # positions.short_vix_asset
        /\ snapshot.raised = ""
        /\ snapshot.asset_history = ledger.current_asset

\* Rotate-2 flips twice and ends in the short-vol instrument
C23_Witness ==
    /\ policy = "lsv" /\ n = 3
    /\ Events = <<long_sell, short_buy>>
    /\ ledger.current_asset = short_vix_asset
    /\ ledger.max_holding > 0

AgreeThrough(t) ==
    /\ t <= Len(data) /\ t <= Len(data1)
    /\ \A j \in 1..t : data[j] = data1[j]

(***************************************************************************)
(* C25: no lookahead.  When two price tables agree on every date up to and *)
(* including t, the regime label, the events and the ledger state          *)
(* (holdings, cash, identity), with the result row, of every date through  *)
(* t are the same in the two runs.                                         *)
(***************************************************************************)
C25_NoLookahead ==
    run = 2 =>
        \A t \in 1..Len(series) :
            AgreeThrough(t) =>
                /\ t <= Len(series1)
                /\ series[t].basis = series1[t].basis
                /\ series[t].signals = series1[t].signals
                /\ series[t].ledger = series1[t].ledger
                /\ series[t] = series1[t]

\* The second table has the first two dates of the first and another third
\* date, and the second run has recorded the two dates they share
C25_Witness ==
    /\ run = 2 /\ n = 2 /\ Len(series) = 2
    /\ Len(data) = 3 /\ Len(data1) = 3
    /\ AgreeThrough(2)
    /\ data[3] # data1[3]
    /\ Regime(data[3]) # Regime(data1[3])

(***************************************************************************)
(* C26: for every table of N >= 1 dates with defined, strictly positive    *)
(* prices each strategy call terminates and returns exactly one snapshot   *)
(* per date, in the date order of the table: the result frame has one row  *)
(* for each date processed, row i is the one of date i, and the call       *)
(* reaches the end of the table with N rows, on dates with and without     *)
(* events.                                                                 *)
(***************************************************************************)
C26_OneSnapshotPerDate ==
    /\ [](/\ Len(series) = n
          /\ n <= Len(data)
          /\ \A i \in 1..Len(series) :
                /\ series[i].index = i
                /\ series[i].result.raised = ""
                /\ series[i].basis = daily_basis(data[i], Col(future_index_ticker, Str_open),
                                                 Col(spot_index_ticker, Str_open)))
    /\ (data # <<>>) ~> (n = Len(data) /\ Len(series) = Len(data))

\* A call that has returned three rows, the second for a date without events
C26_Witness ==
    /\ Len(data) = 3 /\ n = 3 /\ Len(series) = 3
    /\ NotNaN(Keys(policy), series[2].signals) = <<>>
    /\ NotNaN(Keys(policy), series[3].signals) # <<>>

\* portfolio_value of row t of the result frame
TotalValue(t) == series[t].result.portfolio_value

(***************************************************************************)
(* C27: the daily return is undefined (NaN) on the first date and is       *)
(* totalValue(t) / totalValue(t-1) - 1 on every later date; the cumulative *)
(* return, the running product of (1 + daily return) minus 1, is           *)
(* totalValue(t) / totalValue(first date) - 1 on every later date when the *)
(* portfolio values are not zero.  A fraction num/den equals a/b when      *)
(* num * b = den * a.                                                      *)
(***************************************************************************)
C27_Returns ==
    \A t \in 1..Len(series) :
        LET r == series[t].portfolio_returns
            c == series[t].portfolio_cumulative_returns
        IN  /\ t = 1 => (r = NaNFrac /\ c = NaNFrac)
            /\ (t >= 2 /\ TotalValue(t - 1) # 0) =>
                  /\ r.den # 0
                  /\ r.num * TotalValue(t - 1) = r.den * (TotalValue(t) - TotalValue(t - 1))
            /\ t = 2 => c = r
            /\ (t >= 2 /\ \A i \in 1..t : TotalValue(i) # 0) =>
                  /\ c.den # 0
                  /\ (c.num + c.den) * TotalValue(1) = c.den * TotalValue(t)

\* Three dates: a gain on the second, a loss on the third
C27_Witness ==
    /\ n = 3 /\ Len(series) = 3
    /\ \A i \in 1..3 : TotalValue(i) # 0
    /\ series[2].portfolio_returns.num > 0
    /\ series[3].portfolio_returns.num < 0
    /\ series[3].portfolio_cumulative_returns # series[3].portfolio_returns

\* The maximum of the values on the dates up to t
RunningPeak(t) == CHOOSE m \in {tmp[s] : s \in 1..t} : \A s \in 1..t : tmp[s] <= m

(***************************************************************************)
(* C28: maximum_drawdown returns the minimum over all dates of             *)
(* (value(t) - runningPeak(t)) / runningPeak(t), runningPeak(t) being the  *)
(* maximum of the values up to t; for a series of positive values the      *)
(* result is <= 0, and it is 0 exactly when no value is below an earlier   *)
(* value.  The returned fraction num/den has den > 0.                      *)
(***************************************************************************)
C28_MaximumDrawdown ==
    (returned # <<>> /\ tmp # <<>>) =>
        LET res == returned[1]
        IN  /\ res.den > 0
            /\ \E t \in 1..Len(tmp) :
                  res.num * RunningPeak(t) = res.den * (tmp[t] - RunningPeak(t))
            /\ \A t \in 1..Len(tmp) :
                  res.num * RunningPeak(t) <= res.den * (tmp[t] - RunningPeak(t))
            /\ res.num <= 0
            /\ res.num = 0 <=>
                  \A t \in 1..Len(tmp) : \A s \in 1..t : tmp[s] <= tmp[t]

\* A series that falls from its peak, recovers to a new peak and falls less
C28_Witness ==
    /\ returned # <<>> /\ Len(tmp) = 4
    /\ tmp[2] < tmp[1] /\ tmp[3] > tmp[1] /\ tmp[4] < tmp[3]
    /\ returned[1].num < 0
    /\ returned[1].num * tmp[1] = returned[1].den * (tmp[2] - tmp[1])

=============================================================================
